---- MODULE Spec2Model ----
(***************************************************************************)
(* A model of the interpreter of src/src/lib.rs: the data model (Ast,      *)
(* Value, the environment HashMap), the recursive evaluator `eval` as an   *)
(* abstract machine whose stack holds one frame per pending Rust call      *)
(* frame of `eval`, the grammar of `expr`, and the host loop of the        *)
(* benches that parses a text and feeds its forms to `eval` one by one     *)
(* against one shared environment.                                         *)
(***************************************************************************)
EXTENDS Naturals, Sequences, FiniteSets, TLC

VARIABLES
    text,       \* the source text handed to the parser (a sequence of characters)
    program,    \* the top-level forms (Ast) the host feeds to eval
    line,       \* index of the next top-level form
    env,        \* the host's environment, the `variables` of the top-level eval
    control,    \* what the evaluator is doing: idle, evaluating an Ast, returning a Value
    stack,      \* the pending frames of eval, innermost last
    out,        \* the values the top-level evals returned so far
    stdout,     \* what println! printed so far
    status      \* "parsing", "syntax_error", "crashed", "running", "finished", "panicked", "cut"

vars == <<text, program, line, env, control, stack, out, stdout, status>>

-----------------------------------------------------------------------------
(* Bounds of the model *)

\* the pending frames of eval the model follows before it gives up ("cut")
MaxDepth == 32
\* integer literals of the generated programs are 0..MaxInt
MaxInt == 1
\* the generated texts are all texts over TextChars of at most MaxTextLen characters
MaxTextLen == 3
\* the generated argument lists and function bodies have at most this many elements
MaxArgs == 2
MaxBody == 2

-----------------------------------------------------------------------------
(* Data model: enum Ast, enum Value *)

Void == [t |-> "Void"]
False == [t |-> "False"]
IntV(i) == [t |-> "Int", i |-> i]
Function(args, body) == [t |-> "Function", args |-> args, body |-> body]
InbuiltFunc(f) == [t |-> "InbuiltFunc", f |-> f]

Lit(val) == [t |-> "Lit", val |-> val]
Variable(name) == [t |-> "Variable", name |-> name]
Call(func, arguments) == [t |-> "Call", func |-> func, arguments |-> arguments]
Define(name, value) == [t |-> "Define", name |-> name, value |-> value]

\* impl PartialEq for Value
ValueEq(a, b) ==
    \/ a.t = "Void" /\ b.t = "Void"
    \/ a.t = "False" /\ b.t = "False"
    \/ a.t = "Int" /\ b.t = "Int" /\ a.i = b.i

\* HashMap::new(), HashMap::insert, HashMap::get(..).is_some()
EmptyMap == [n \in {} |-> Void]

\* entry(name).or_insert(val): an earlier binding is kept
InsertIfAbsent(m, name, val) ==
    [n \in DOMAIN m \cup {name} |-> IF n \in DOMAIN m THEN m[n] ELSE val]

Insert(m, name, val) == [n \in DOMAIN m \cup {name} |-> IF n = name THEN val ELSE m[n]]
Has(m, name) == name \in DOMAIN m

-----------------------------------------------------------------------------
(* Host primitives of the benches: fn(Vec<Value>) -> Value.  Each yields   *)
(* the returned value, what it printed, and whether it panicked.           *)

RECURSIVE SumInts(_)
SumInts(vs) ==
    IF vs = <<>> THEN 0
    ELSE (IF Head(vs).t = "Int" THEN Head(vs).i ELSE 0) + SumInts(Tail(vs))

NonInts(vs) == Cardinality({i \in 1..Len(vs) : vs[i].t # "Int"})

Returned(v, n) == [panic |-> FALSE, val |-> v, printed |-> n]
Panicked == [panic |-> TRUE, val |-> Void, printed |-> 0]

\* fn add: sums the Int arguments, prints once for every other argument
add(vs) == Returned(IntV(SumInts(vs)), NonInts(vs))

\* fn eq: Void (true) when every argument equals the last one, else False
eq(vs) ==
    IF vs = <<>> THEN Returned(Void, 0)
    ELSE IF \E i \in 1..(Len(vs) - 1) : ~ValueEq(vs[i], vs[Len(vs)])
         THEN Returned(False, 0)
         ELSE Returned(Void, 0)

\* fn if_: the second argument unless the first is False, then the third (or Void)
if_(vs) ==
    IF Len(vs) < 2 \/ Len(vs) > 3 THEN Panicked
    ELSE IF vs[1].t = "False"
         THEN Returned(IF Len(vs) = 3 THEN vs[3] ELSE Void, 0)
         ELSE Returned(vs[2], 0)

\* fn callable: returns itself; fn ignore: returns Void
callable(vs) == Returned(InbuiltFunc("callable"), 0)
ignore(vs) == Returned(Void, 0)

ApplyInbuilt(f, vs) ==
    CASE f = "add" -> add(vs)
      [] f = "eq" -> eq(vs)
      [] f = "if" -> if_(vs)
      [] f = "callable" -> callable(vs)
      [] OTHER -> ignore(vs)

-----------------------------------------------------------------------------
(* The evaluator.  A frame of the stack is one pending call of eval that   *)
(* waits for a nested eval to return:                                      *)
(*   Call    line 50, the callee is being evaluated                        *)
(*   Args    lines 62-65, the arguments of a Function call                 *)
(*   Body    lines 69-71, the statements of a Function body                *)
(*   Inbuilt lines 76-79, the arguments of an InbuiltFunc call             *)
(*   Define  line 85, the value of a Define                                *)

CallFrame(arguments) == [k |-> "Call", arguments |-> arguments]
ArgsFrame(args, arguments, new_scope, body) ==
    [k |-> "Args", args |-> args, arguments |-> arguments, i |-> 1,
     new_scope |-> new_scope, body |-> body]
\* args and bound are history: the parameter names and how many of them the zip
\* bound, which the code has dropped by the time the body runs
BodyFrame(body, new_scope, args, bound) ==
    [k |-> "Body", body |-> body, i |-> 1, new_scope |-> new_scope, out |-> Void,
     args |-> args, bound |-> bound]
InbuiltFrame(f, arguments) ==
    [k |-> "Inbuilt", f |-> f, arguments |-> arguments, i |-> 1, vals |-> <<>>]
DefineFrame(name) == [k |-> "Define", name |-> name]

Idle == [k |-> "idle"]
Evaluating(ast) == [k |-> "eval", program |-> ast]
Returning(val) == [k |-> "ret", val |-> val]
Looping == [k |-> "loop"]
Panic(msg) == [k |-> "panic", msg |-> msg]

Top(s) == s[Len(s)]
Pop(s) == SubSeq(s, 1, Len(s) - 1)
Min(a, b) == IF a < b THEN a ELSE b

\* every eval runs against the host's environment: bodies get no scope of their own
NoScopeFrame(s, n) == 0

\* the arguments of a Function call are evaluated against its new scope
ScopeFrameWithArgs(s, n) ==
    LET scopes == {j \in 1..n : s[j].k \in {"Body", "Args"}}
    IN IF scopes = {} THEN 0 ELSE CHOOSE j \in scopes : \A l \in scopes : l <= j

\* The innermost Body frame among the first n frames: its new_scope is the
\* `variables` of every eval above it (line 70); 0 when there is none and
\* `variables` is the host's environment.
ScopeFrame(s, n) ==
    LET bodies == {j \in 1..n : s[j].k = "Body"}
    IN IF bodies = {} THEN 0 ELSE CHOOSE j \in bodies : \A l \in bodies : l <= j

\* the map the parameter `variables` of the running eval refers to
VariablesOf(s, e) ==
    IF ScopeFrame(s, Len(s)) = 0 THEN e ELSE s[ScopeFrame(s, Len(s))].new_scope

\* the stack and the host environment after `variables` is replaced by m
StackWith(s, m) ==
    IF ScopeFrame(s, Len(s)) = 0 THEN s
    ELSE [s EXCEPT ![ScopeFrame(s, Len(s))].new_scope = m]
EnvWith(s, e, m) == IF ScopeFrame(s, Len(s)) = 0 THEN m ELSE e

Running == status = "running"
Unwind(msg) ==
    /\ control' = Panic(msg)
    /\ stack' = <<>>
    /\ status' = "panicked"

\* A nested eval: one more frame.  Beyond MaxDepth frames the model stops.
Push(frame, ast) ==
    IF Len(stack) < MaxDepth
    THEN /\ stack' = Append(stack, frame)
         /\ control' = Evaluating(ast)
         /\ status' = status
    ELSE /\ stack' = stack
         /\ control' = control
         /\ status' = "cut"

\* the host loop: for line in &program { eval(line.clone(), &mut env) }
StartForm ==
    /\ Running /\ control = Idle /\ line <= Len(program)
    /\ control' = Evaluating(program[line])
    /\ UNCHANGED <<text, program, line, env, stack, out, stdout, status>>

FinishForm ==
    /\ Running /\ control.k = "ret" /\ stack = <<>>
    /\ out' = Append(out, control.val)
    /\ line' = line + 1
    /\ control' = Idle
    /\ status' = IF line = Len(program) THEN "finished" ELSE status
    /\ UNCHANGED <<text, program, env, stack, stdout>>

\* Lit(val) => val
EvalLit ==
    /\ Running /\ control.k = "eval" /\ control.program.t = "Lit"
    /\ control' = Returning(control.program.val)
    /\ UNCHANGED <<text, program, line, env, stack, out, stdout, status>>

\* a missing name silently evaluates to Void
LookupOrVoid(variables, name) ==
    IF Has(variables, name) THEN Returning(variables[name]) ELSE Returning(Void)

\* Variable(name) => variables.get(&name), or panic
Lookup(variables, name) ==
    IF Has(variables, name) THEN Returning(variables[name])
    ELSE Panic("Variable does not exist")

EvalVariable ==
    /\ Running /\ control.k = "eval" /\ control.program.t = "Variable"
    /\ LET r == Lookup(VariablesOf(stack, env), control.program.name)
       IN IF r.k = "panic"
          THEN Unwind(r.msg)
          ELSE control' = r /\ UNCHANGED <<stack, status>>
    /\ UNCHANGED <<text, program, line, env, out, stdout>>

\* Call(func, arguments) => let func = eval(*func, variables)
EvalCall ==
    /\ Running /\ control.k = "eval" /\ control.program.t = "Call"
    /\ Push(CallFrame(control.program.arguments), control.program.func)
    /\ UNCHANGED <<text, program, line, env, out, stdout>>

\* Define(name, value) => let value = eval(*value, variables)
EvalDefine ==
    /\ Running /\ control.k = "eval" /\ control.program.t = "Define"
    /\ Push(DefineFrame(control.program.name), control.program.value)
    /\ UNCHANGED <<text, program, line, env, out, stdout>>

\* variables.insert(Rc::new(name), value); Void
FinishDefine ==
    /\ Running /\ control.k = "ret" /\ stack # <<>> /\ Top(stack).k = "Define"
    /\ LET s == Pop(stack)
           m == Insert(VariablesOf(s, env), Top(stack).name, control.val)
       IN /\ stack' = StackWith(s, m)
          /\ env' = EnvWith(s, env, m)
    /\ control' = Returning(Void)
    /\ UNCHANGED <<text, program, line, out, stdout, status>>

\* let mut new_scope = HashMap::new(): the callee starts from nothing
FreshScope(variables) == EmptyMap

\* let mut new_scope = variables.clone()
NewScope(variables) == variables

\* Function(args, body) => the new scope, and the warning of a wrong count
CallFunction ==
    /\ Running /\ control.k = "ret" /\ stack # <<>> /\ Top(stack).k = "Call"
    /\ control.val.t = "Function"
    /\ LET s == Pop(stack)
           arguments == Top(stack).arguments
           f == control.val
       IN /\ stack' = Append(s, ArgsFrame(f.args, arguments,
                                          NewScope(VariablesOf(s, env)), f.body))
          /\ stdout' = IF Len(arguments) # Len(f.args)
                       THEN Append(stdout, "Called function with incorrect number of arguments")
                       ELSE stdout
    /\ control' = Looping
    /\ UNCHANGED <<text, program, line, env, out, status>>

\* for (name, val) in args.into_iter().zip(arguments) { let val = eval(val, variables);
NextArgument ==
    /\ Running /\ control = Looping /\ Top(stack).k = "Args"
    /\ Top(stack).i <= Min(Len(Top(stack).args), Len(Top(stack).arguments))
    /\ control' = Evaluating(Top(stack).arguments[Top(stack).i])
    /\ UNCHANGED <<text, program, line, env, stack, out, stdout, status>>

\* new_scope.insert(Rc::new(name), val); }
BindArgument ==
    /\ Running /\ control.k = "ret" /\ stack # <<>> /\ Top(stack).k = "Args"
    /\ LET fr == Top(stack)
       IN stack' = [stack EXCEPT ![Len(stack)] =
                        [fr EXCEPT !.new_scope = Insert(fr.new_scope, fr.args[fr.i], control.val),
                                   !.i = fr.i + 1]]
    /\ control' = Looping
    /\ UNCHANGED <<text, program, line, env, out, stdout, status>>

\* the parameters the zip left over are bound to Void
EnterBodyFill ==
    /\ Running /\ control = Looping /\ Top(stack).k = "Args"
    /\ Top(stack).i > Min(Len(Top(stack).args), Len(Top(stack).arguments))
    /\ LET fr == Top(stack)
           filled == [n \in DOMAIN fr.new_scope \cup {fr.args[l] : l \in fr.i..Len(fr.args)} |->
                        IF n \in {fr.args[l] : l \in fr.i..Len(fr.args)}
                        THEN Void ELSE fr.new_scope[n]]
       IN stack' = [stack EXCEPT ![Len(stack)] =
                        BodyFrame(fr.body, filled, fr.args, fr.i - 1)]
    /\ UNCHANGED <<text, program, line, env, control, out, stdout, status>>

\* the scope is copied again once the arguments are evaluated
EnterBodyRecopy ==
    /\ Running /\ control = Looping /\ Top(stack).k = "Args"
    /\ Top(stack).i > Min(Len(Top(stack).args), Len(Top(stack).arguments))
    /\ LET fr == Top(stack)
           caller == VariablesOf(Pop(stack), env)
           bound == {fr.args[l] : l \in 1..(fr.i - 1)}
           late == [n \in DOMAIN caller \cup DOMAIN fr.new_scope |->
                      IF n \in bound \/ n \notin DOMAIN caller
                      THEN fr.new_scope[n] ELSE caller[n]]
       IN stack' = [stack EXCEPT ![Len(stack)] =
                        BodyFrame(fr.body, late, fr.args, fr.i - 1)]
    /\ UNCHANGED <<text, program, line, env, control, out, stdout, status>>

\* let mut out = Void; for stmt in body {
EnterBody ==
    /\ Running /\ control = Looping /\ Top(stack).k = "Args"
    /\ Top(stack).i > Min(Len(Top(stack).args), Len(Top(stack).arguments))
    /\ stack' = [stack EXCEPT ![Len(stack)] =
                     BodyFrame(Top(stack).body, Top(stack).new_scope,
                               Top(stack).args, Top(stack).i - 1)]
    /\ UNCHANGED <<text, program, line, env, control, out, stdout, status>>

\* out = eval(stmt, &mut new_scope)
NextStatement ==
    /\ Running /\ control = Looping /\ Top(stack).k = "Body"
    /\ Top(stack).i <= Len(Top(stack).body)
    /\ control' = Evaluating(Top(stack).body[Top(stack).i])
    /\ UNCHANGED <<text, program, line, env, stack, out, stdout, status>>

\* only the first statement's value is kept
FinishStatementFirst ==
    /\ Running /\ control.k = "ret" /\ stack # <<>> /\ Top(stack).k = "Body"
    /\ stack' = [stack EXCEPT ![Len(stack)].out =
                                  IF Top(stack).i = 1 THEN control.val ELSE Top(stack).out,
                              ![Len(stack)].i = Top(stack).i + 1]
    /\ control' = Looping
    /\ UNCHANGED <<text, program, line, env, out, stdout, status>>

FinishStatement ==
    /\ Running /\ control.k = "ret" /\ stack # <<>> /\ Top(stack).k = "Body"
    /\ stack' = [stack EXCEPT ![Len(stack)].out = control.val,
                              ![Len(stack)].i = Top(stack).i + 1]
    /\ control' = Looping
    /\ UNCHANGED <<text, program, line, env, out, stdout, status>>

\* } out : the new scope is dropped
ReturnFromBody ==
    /\ Running /\ control = Looping /\ Top(stack).k = "Body"
    /\ Top(stack).i > Len(Top(stack).body)
    /\ control' = Returning(Top(stack).out)
    /\ stack' = Pop(stack)
    /\ UNCHANGED <<text, program, line, env, out, stdout, status>>

\* InbuiltFunc(func) => func(arguments.into_iter().map(|ast| eval(ast, variables)).collect())
CallInbuilt ==
    /\ Running /\ control.k = "ret" /\ stack # <<>> /\ Top(stack).k = "Call"
    /\ control.val.t = "InbuiltFunc"
    /\ stack' = [stack EXCEPT ![Len(stack)] = InbuiltFrame(control.val.f, Top(stack).arguments)]
    /\ control' = Looping
    /\ UNCHANGED <<text, program, line, env, out, stdout, status>>

NextInbuiltArgument ==
    /\ Running /\ control = Looping /\ Top(stack).k = "Inbuilt"
    /\ Top(stack).i <= Len(Top(stack).arguments)
    /\ control' = Evaluating(Top(stack).arguments[Top(stack).i])
    /\ UNCHANGED <<text, program, line, env, stack, out, stdout, status>>

CollectInbuiltArgument ==
    /\ Running /\ control.k = "ret" /\ stack # <<>> /\ Top(stack).k = "Inbuilt"
    /\ stack' = [stack EXCEPT ![Len(stack)].vals = Append(Top(stack).vals, control.val),
                              ![Len(stack)].i = Top(stack).i + 1]
    /\ control' = Looping
    /\ UNCHANGED <<text, program, line, env, out, stdout, status>>

ApplyInbuiltFunc ==
    /\ Running /\ control = Looping /\ Top(stack).k = "Inbuilt"
    /\ Top(stack).i > Len(Top(stack).arguments)
    /\ LET r == ApplyInbuilt(Top(stack).f, Top(stack).vals)
       IN IF r.panic
          THEN Unwind("host primitive panicked") /\ stdout' = stdout
          ELSE /\ control' = Returning(r.val)
               /\ stack' = Pop(stack)
               /\ stdout' = stdout \o [j \in 1..r.printed |-> "Tried to add a non-int"]
               /\ status' = status
    /\ UNCHANGED <<text, program, line, env, out>>

\* _ => panic!("Attempted to call a non-function")
CallNonFunction ==
    /\ Running /\ control.k = "ret" /\ stack # <<>> /\ Top(stack).k = "Call"
    /\ control.val.t \notin {"Function", "InbuiltFunc"}
    /\ Unwind("Attempted to call a non-function")
    /\ UNCHANGED <<text, program, line, env, out, stdout>>

Eval ==
    \/ EvalLit \/ EvalVariable \/ EvalCall \/ EvalDefine \/ FinishDefine
    \/ CallFunction \/ NextArgument \/ BindArgument \/ EnterBody
    \/ NextStatement \/ FinishStatement \/ ReturnFromBody
    \/ CallInbuilt \/ NextInbuiltArgument \/ CollectInbuiltArgument \/ ApplyInbuiltFunc
    \/ CallNonFunction

-----------------------------------------------------------------------------
(* The grammar `expr`.  A text is a sequence of characters; a parser        *)
(* yields [st, val, pos]: st is "ok" (val parsed, input consumed up to      *)
(* pos), "empty" (failed without consuming: an enclosing choice or many     *)
(* goes on), "consumed" (failed after consuming: the failure is final) or   *)
(* "panic" (the closure of lit_num panicked).                               *)

Whitespace == {" ", "\n", "\t"}
Digits == <<"0", "1", "2", "3", "4", "5", "6", "7", "8", "9">>
Letters == {"a", "b", "c", "d", "e", "f", "g", "h", "i", "j", "k", "l", "m",
            "n", "o", "p", "q", "r", "s", "t", "u", "v", "w", "x", "y", "z"}
IsDigit(c) == \E d \in 1..10 : Digits[d] = c
DigitValue(c) == (CHOOSE d \in 1..10 : Digits[d] = c) - 1

\* u64::MAX = 18446744073709551615, digit by digit
U64MaxDigits == <<1, 8, 4, 4, 6, 7, 4, 4, 0, 7, 3, 7, 0, 9, 5, 5, 1, 6, 1, 5>>

ParsedOk(val, pos) == [st |-> "ok", val |-> val, pos |-> pos]
ParseFailed(consumed, pos) ==
    [st |-> IF consumed THEN "consumed" ELSE "empty", val |-> Void, pos |-> pos]
ParsePanicked(pos) == [st |-> "panic", val |-> Void, pos |-> pos]

At(t, p) == IF p <= Len(t) THEN t[p] ELSE "<eof>"

\* skip_many(satisfy(..)) / the end of many1(satisfy(..)): the first position
\* from p on whose character is not in the class
RECURSIVE SkipWhile(_, _, _)
SkipWhile(t, p, class) ==
    IF p <= Len(t) /\ t[p] \in class THEN SkipWhile(t, p + 1, class) ELSE p

SkipWhite(t, p) == SkipWhile(t, p, Whitespace)
DigitChars == {Digits[d] : d \in 1..10}

RECURSIVE Join(_)
Join(cs) == IF cs = <<>> THEN "" ELSE Head(cs) \o Join(Tail(cs))

RECURSIVE StripZeros(_)
StripZeros(ds) == IF ds # <<>> /\ Head(ds) = 0 THEN StripZeros(Tail(ds)) ELSE ds

RECURSIVE DigitsLess(_, _)
\* ds < es for digit sequences of one length
DigitsLess(ds, es) ==
    IF ds = <<>> THEN FALSE
    ELSE IF Head(ds) # Head(es) THEN Head(ds) < Head(es)
    ELSE DigitsLess(Tail(ds), Tail(es))

RECURSIVE Horner(_, _)
Horner(ds, acc) == IF ds = <<>> THEN acc ELSE Horner(Tail(ds), 10 * acc + Head(ds))

\* str::parse::<u64>() of a run of digits: Err when the number exceeds u64::MAX
FitsU64(cs) ==
    LET ds == StripZeros([j \in 1..Len(cs) |-> DigitValue(cs[j])])
    IN \/ Len(ds) < Len(U64MaxDigits)
       \/ Len(ds) = Len(U64MaxDigits) /\ ~DigitsLess(U64MaxDigits, ds)
U64Value(cs) == Horner([j \in 1..Len(cs) |-> DigitValue(cs[j])], 0)

\* the letters from q to r, then the whitespace after them
IdentOf(t, p, q, r) ==
    IF r = q THEN ParseFailed(q > p, q)
    ELSE ParsedOk(Join(SubSeq(t, q, r - 1)), SkipWhite(t, r))

IdentAt(t, p, q) == IdentOf(t, p, q, SkipWhile(t, q, Letters))

\* ident: white!(many1(letter()))
ParseIdent(t, p) == IdentAt(t, p, SkipWhite(t, p))

\* .map(|i| Ast::Lit(::Value::Int(i.parse().expect("Parsing integer failed"))))
LitNumOf(t, p, r) ==
    IF r = p THEN ParseFailed(FALSE, p)
    ELSE IF FitsU64(SubSeq(t, p, r - 1))
         THEN ParsedOk(Lit(IntV(U64Value(SubSeq(t, p, r - 1)))), r)
         ELSE ParsePanicked(p)

\* lit_num: many1(digit()), then the map
ParseLitNum(t, p) == LitNumOf(t, p, SkipWhile(t, p, DigitChars))

\* flse: white!(string("#f"))
ParseFalse(t, p) ==
    IF At(t, p) # "#" THEN ParseFailed(FALSE, p)
    ELSE IF At(t, p + 1) # "f" THEN ParseFailed(TRUE, p + 1)
    ELSE ParsedOk(Lit(False), SkipWhite(t, p + 2))

\* a failure after input was consumed is final
Commit(r) == IF r.st = "empty" THEN [r EXCEPT !.st = "consumed"] ELSE r

\* many: one more element after r, or the end of the list when r failed
\* without consuming
RECURSIVE ManyIdent(_, _, _)
ManyIdentNext(t, p, acc, r) ==
    IF r.st = "ok" THEN ManyIdent(t, r.pos, Append(acc, r.val))
    ELSE IF r.st = "empty" THEN ParsedOk(acc, p)
    ELSE r

\* many::<Vec<_>, _>(ident())
ManyIdent(t, p, acc) == ManyIdentNext(t, p, acc, ParseIdent(t, p))

RECURSIVE ParseExpr(_, _)
RECURSIVE ManyExpr(_, _, _)

ManyExprNext(t, p, acc, r) ==
    IF r.st = "ok" THEN ManyExpr(t, r.pos, Append(acc, r.val))
    ELSE IF r.st = "empty" THEN ParsedOk(acc, p)
    ELSE r

\* many::<Vec<_>, _>(expr())
ManyExpr(t, p, acc) == ManyExprNext(t, p, acc, ParseExpr(t, p))

\* .map(|(_, a, b)| Ast::Lit(::Value::Function(a, b)))
FunctionOf(a, b) ==
    IF b.st # "ok" THEN Commit(b) ELSE ParsedOk(Lit(Function(a.val, b.val)), b.pos)

\* the end of the parameter list, then many::<Vec<_>, _>(expr())
FunctionBody(t, a) ==
    IF a.st # "ok" THEN Commit(a)
    ELSE IF At(t, a.pos) # ")" THEN ParseFailed(TRUE, a.pos)
    ELSE FunctionOf(a, ManyExpr(t, SkipWhite(t, a.pos + 1), <<>>))

\* the parameter list: white!(between(char('('), char(')'), many(ident())))
FunctionParams(t, q) ==
    IF At(t, q) # "(" THEN ParseFailed(TRUE, q)
    ELSE FunctionBody(t, ManyIdent(t, q + 1, <<>>))

\* function, after white!(lambda)
ParseFunction(t, p) == FunctionParams(t, SkipWhite(t, p))

\* .map(|(_, a, b)| Ast::Define(a, Box::new(b)))
DefineOf(a, b) ==
    IF b.st # "ok" THEN Commit(b) ELSE ParsedOk(Define(a.val, b.val), b.pos)

DefineValue(t, a) ==
    IF a.st # "ok" THEN Commit(a) ELSE DefineOf(a, ParseExpr(t, a.pos))

\* define, after white!(eq): (ident(), expr())
ParseDefine(t, p) == DefineValue(t, ParseIdent(t, p))

\* .map(|(func, args)| Ast::Call(Box::new(func), args))
CallOf(a, b) ==
    IF b.st # "ok" THEN Commit(b) ELSE ParsedOk(Call(a.val, b.val), b.pos)

CallArguments(t, a) ==
    IF a.st # "ok" THEN a ELSE CallOf(a, ManyExpr(t, a.pos, <<>>))

\* call: (expr(), many(expr()))
ParseCall(t, p) == CallArguments(t, ParseExpr(t, p))

\* choice!(function, define, call) at q, the input after the opening
\* parenthesis at p and the whitespace white!(lambda) skips
FormAt(t, p, q) ==
    IF At(t, q) = "\\" THEN ParseFunction(t, SkipWhite(t, q + 1))
    ELSE IF q > p THEN ParseFailed(TRUE, q)
    ELSE IF At(t, p) = "=" THEN ParseDefine(t, SkipWhite(t, p + 1))
    ELSE ParseCall(t, p)

ParseForm(t, p) == FormAt(t, p, SkipWhite(t, p))

\* the closing parenthesis
CloseParens(t, r) ==
    IF r.st # "ok" THEN Commit(r)
    ELSE IF At(t, r.pos) # ")" THEN ParseFailed(TRUE, r.pos)
    ELSE ParsedOk(r.val, r.pos + 1)

\* between(char('('), char(')'), choice!(function, define, call))
ParseParens(t, p) ==
    IF At(t, p) # "(" THEN ParseFailed(FALSE, p)
    ELSE CloseParens(t, ParseForm(t, p + 1))

\* ident().map(Ast::Variable), else the parenthesised forms
VariableOrParens(t, p, v) ==
    IF v.st = "ok" THEN ParsedOk(Variable(v.val), v.pos)
    ELSE IF v.st # "empty" THEN v
    ELSE ParseParens(t, p)

NumberOrRest(t, p, n) ==
    IF n.st # "empty" THEN n ELSE VariableOrParens(t, p, ParseIdent(t, p))

FalseOrRest(t, p, f) ==
    IF f.st # "empty" THEN f ELSE NumberOrRest(t, p, ParseLitNum(t, p))

\* choice!(flse, lit_num, ident().map(Ast::Variable), between(..))
ParseChoice(t, p) == FalseOrRest(t, p, ParseFalse(t, p))

\* the whitespace after the expression; a failure after leading whitespace is final
ExprOf(t, p, q, r) ==
    IF r.st = "ok" THEN ParsedOk(r.val, SkipWhite(t, r.pos))
    ELSE IF r.st = "empty" /\ q > p THEN Commit(r)
    ELSE r

ExprAt(t, p, q) == ExprOf(t, p, q, ParseChoice(t, q))

\* expr: white!(choice!(..))
ParseExpr(t, p) == ExprAt(t, p, SkipWhite(t, p))

Many1Of(t, a) == IF a.st # "ok" THEN a ELSE ManyExpr(t, a.pos, <<a.val>>)

\* many1::<Vec<_>, _>(expr()).easy_parse(text)
ParseProgram(t) == Many1Of(t, ParseExpr(t, 1))

\* Ok((program, rest)), Err(..), or the panic of lit_num
Parsed(r) ==
    /\ status' = CASE r.st = "ok" -> "running"
                   [] r.st = "panic" -> "crashed"
                   [] OTHER -> "syntax_error"
    /\ program' = IF r.st = "ok" THEN r.val ELSE program
    /\ text' = IF r.st = "ok" THEN SubSeq(text, r.pos, Len(text)) ELSE text

\* let (program, _) = many1(expr()).easy_parse(text)
ParseText ==
    /\ status = "parsing"
    /\ Parsed(ParseProgram(text))
    /\ UNCHANGED <<line, env, control, stack, out, stdout>>

-----------------------------------------------------------------------------
(* Inputs: the texts and the directly built programs the host runs, and the *)
(* environments it registers before evaluation begins.                      *)

\* the environment of run_real_code
HostEnv == [n \in {"add", "eq", "if"} |-> InbuiltFunc(n)]
\* a host that also registered a value and, as run_deep_nesting, `callable`
UserEnv == Insert(Insert(HostEnv, "a", IntV(0)), "f", InbuiltFunc("callable"))
InitEnvs == {EmptyMap, HostEnv, UserEnv}

SeqsUpTo(S, n) == UNION {[1..l -> S] : l \in 0..n}

TextChars == {"(", ")", "a", "f", "1", "=", "\\", "#", " "}

SampleTexts == {
    <<"5">>,
    <<"#", "f">>,
    <<"(", "=", " ", "a", " ", "3", ")", " ", "a">>,
    <<"(", "(", "\\", "(", "a", ")", " ", "a", ")", " ", "7", ")">>,
    <<"(", "(", "(", "f", ")", ")", ")">>,
    <<"(", "(", "\\", "(", "a", " ", "b", ")", " ", "b", ")", " ", "1", ")">>,
    <<"(", "=", " ", "f", " ", "(", "\\", "(", ")", " ", "(", "=", " ", "x", " ", "1", ")",
      " ", "x", ")", ")", " ", "(", "f", ")", " ", "x">>,
    <<"(", "a", "d", "d", " ", "1", "8", "4", "4", "6", "7", "4", "4", "0", "7", "3", "7",
      "0", "9", "5", "5", "1", "6", "1", "6", ")">>,
    <<"9", "9", "9", "9", "9", "9", "9", "9", "9", "9",
      "9", "9", "9", "9", "9", "9", "9", "9", "9", "9">>,
    <<"0", "0", "0", "0", "0", "0", "0", "0", "0", "0",
      "0", "0", "0", "0", "0", "0", "0", "0", "0", "0", "7">>
}

Texts == SeqsUpTo(TextChars, MaxTextLen) \cup SampleTexts

Names == {"a", "b"}
Atoms ==
    {Lit(IntV(i)) : i \in 0..MaxInt} \cup {Lit(False)} \cup {Variable(n) : n \in Names}

\* argument expressions: atoms, and Defines that act on the caller's environment
ArgExprs == Atoms \cup {Define("a", Lit(IntV(MaxInt))), Define("b", Variable("a"))}

\* body statements: atoms, Defines, a nested call that defines in its own scope,
\* a call of whatever `a` is bound to
BodyStmts ==
    Atoms \cup {Define("a", Lit(False)), Define("b", Variable("a")),
                Call(Lit(Function(<<>>, <<Define("b", Lit(IntV(0))), Variable("b")>>)), <<>>),
                Call(Variable("a"), <<>>)}

ParamLists == {<<>>, <<"a">>, <<"a", "b">>, <<"a", "a">>}

\* one call of a function literal: every argument list with a few bodies, and
\* every body with a few argument lists
CallForms ==
    {Call(Lit(Function(ps, body)), arguments) :
        ps \in ParamLists,
        body \in {<<>>, <<Variable("a")>>, <<Variable("b")>>, <<Variable("a"), Variable("b")>>},
        arguments \in SeqsUpTo(ArgExprs, MaxArgs)}
    \cup
    {Call(Lit(Function(ps, body)), arguments) :
        ps \in ParamLists,
        body \in SeqsUpTo(BodyStmts, MaxBody),
        arguments \in {<<>>, <<Lit(IntV(MaxInt))>>, <<Lit(IntV(0)), Lit(False)>>}}

\* a function defined once and called twice, with a name redefined in between
Scripts ==
    {<<Define("f", Lit(Function(ps, <<Variable(n)>>))),
       Define(n, Lit(v1)), Call(Variable("f"), arguments),
       Define(n, Lit(v2)), Call(Variable("f"), arguments)>> :
        ps \in {<<>>, <<"b">>}, n \in Names,
        v1 \in {IntV(i) : i \in 0..MaxInt} \cup {False},
        v2 \in {IntV(i) : i \in 0..MaxInt} \cup {False},
        arguments \in {<<>>, <<Lit(IntV(MaxInt))>>}}

\* a function whose body calls a function defined after it, which returns a
\* literal or looks up a name; a function that calls itself for ever
Forward ==
    {<<Define("f", Lit(Function(<<>>, <<Call(Variable("g"), <<>>)>>))),
       Define("g", Lit(Function(<<>>, <<g>>))),
       Call(Variable("f"), <<>>)>> :
        g \in {Lit(IntV(i)) : i \in 0..MaxInt} \cup {Lit(False), Variable("b")}}
    \cup
    {<<Define("f", Lit(Function(<<>>, <<Call(Variable("f"), <<>>)>>))),
       Call(Variable("f"), <<>>)>>}

\* "(= a 3) a" and the scope isolation example, built directly
Examples ==
    {<<Define("a", Lit(IntV(i))), Variable("a")>> : i \in 0..MaxInt}
    \cup
    {<<Define("f", Lit(Function(<<>>, <<Define("x", Lit(IntV(1))), Variable("x")>>))),
       Call(Variable("f"), <<>>)>>}

\* const REAL_CODE, as the parser reads it
V(n) == Variable(n)
N(i) == Lit(IntV(i))
RealCode == <<
    Define("increment", Lit(Function(<<"a">>, <<Call(V("add"), <<V("a"), N(1)>>)>>))),
    Define("someval", Call(V("increment"), <<N(2)>>)),
    Define("double", Lit(Function(<<"someval">>,
        <<Call(V("add"), <<V("someval"), V("someval")>>)>>))),
    Define("addfive", Lit(Function(<<"first", "second", "third", "fourth", "fifth">>,
        <<Call(V("add"), <<V("first"), V("second"), V("third"), V("fourth"), V("fifth")>>)>>))),
    Define("second", Lit(Function(<<"a", "a">>, <<V("a")>>))),
    Define("rec", Lit(Function(<<"a">>,
        <<Call(Call(V("if"), <<Call(V("eq"), <<V("a"), N(10)>>),
                               Lit(Function(<<>>, <<N(10)>>)),
                               Lit(Function(<<>>,
                                   <<Call(V("rec"), <<Call(V("add"), <<V("a"), N(1)>>)>>)>>))>>),
               <<>>)>>))),
    Define("ne", Lit(Function(<<"a", "b">>,
        <<Call(V("not"), <<Call(V("eq"), <<V("a"), V("b")>>)>>)>>))),
    Define("not", Lit(Function(<<"a">>, <<Call(V("if"), <<V("a"), Lit(False)>>)>>))),
    Call(V("double"), <<N(5)>>),
    Call(V("addfive"), <<N(1), N(2), N(3), N(4), N(5)>>),
    Call(V("second"), <<N(1), N(2)>>),
    Call(V("rec"), <<N(0)>>),
    Call(V("ne"), <<N(1), N(2)>>),
    V("someval") >>

Programs ==
    {<<c>> : c \in CallForms} \cup Scripts \cup Forward \cup Examples \cup {RealCode}

Init ==
    /\ line = 1
    /\ env \in InitEnvs
    /\ control = Idle
    /\ stack = <<>>
    /\ out = <<>>
    /\ stdout = <<>>
    /\ \/ status = "parsing" /\ text \in Texts /\ program = <<>>
       \/ status = "running" /\ text = <<>> /\ program \in Programs

Next == ParseText \/ StartForm \/ FinishForm \/ Eval

Spec == Init /\ [][Next]_vars

-----------------------------------------------------------------------------
(* Properties *)

Maximum(S) == CHOOSE x \in S : \A y \in S : y <= x
BodiesAt(s, n) == {l \in 1..n : s[l].k = "Body"}
\* the environment in effect for an eval whose pending frames are the first n
\* frames of s, the host's environment being e
ScopeAt(s, e, n) ==
    IF BodiesAt(s, n) = {} THEN e ELSE s[Maximum(BodiesAt(s, n))].new_scope
BodiesIn(n) == BodiesAt(stack, n)
ScopeIn(n) == ScopeAt(stack, env, n)
\* m2 is m with name bound to val and nothing else changed
IsWith(m2, m, name, val) ==
    /\ DOMAIN m2 = DOMAIN m \cup {name}
    /\ m2[name] = val
    /\ \A k \in DOMAIN m \ {name} : m2[k] = m[k]
\* frame j holds the arguments of a Function call and the running eval belongs
\* to one of these arguments, not to a body above it
ArgLevel(j) == stack[j].k = "Args" /\ \A l \in (j + 1)..Len(stack) : stack[l].k # "Body"
Supplied(fr) == Min(Len(fr.args), Len(fr.arguments))
\* the parameters of Body frame j that got no argument
Remaining(j) == {stack[j].args[l] : l \in (stack[j].bound + 1)..Len(stack[j].args)}
InBody(j) == BodiesIn(Len(stack)) # {} /\ j = Maximum(BodiesIn(Len(stack)))
IsLookup == control.k = "eval" /\ control.program.t = "Variable"
\* the running eval is a lookup, in the body of frame j, of a parameter of j
\* that got no argument
LooksUpRemaining(j) == InBody(j) /\ IsLookup /\ control.program.name \in Remaining(j)

\* C1: scope isolation.  While the body of a Function call is being evaluated,
\* at any nesting depth, no step changes the host environment or any frame
\* below that body: a Define of the body writes only the call's own copied
\* scope, and when the call returns the caller has the bindings it had when
\* the body began.
ScopeIsolation ==
    [][\A j \in 1..Len(stack) :
          stack[j].k = "Body" =>
              /\ env' = env
              /\ \A l \in 1..(j - 1) : l <= Len(stack') => stack'[l] = stack[l]]_vars

\* the spec's example has run: f's body defined x and read it back, and x is
\* absent from the top-level environment
ScopeIsolationWitness ==
    /\ status = "finished"
    /\ Len(program) = 2 /\ program[2] = Call(Variable("f"), <<>>)
    /\ program[1] = Define("f", Lit(Function(<<>>,
                        <<Define("x", Lit(IntV(1))), Variable("x")>>)))
    /\ out = <<Void, IntV(1)>>
    /\ "x" \notin DOMAIN env

\* C2: argument scope and order.  The arguments of a Function call are
\* evaluated one by one from the first, each against the caller's environment:
\* an argument that is a variable yields the caller's binding or fails as
\* undefined even when it names a parameter bound just before; the new scope
\* changes only when the value of argument i is bound to parameter i.
ArgumentScopeAndOrder ==
    [][\A j \in 1..Len(stack) :
          ArgLevel(j) =>
              LET fr == stack[j] IN
              /\ IsLookup =>
                    IF control.program.name \in DOMAIN ScopeIn(j - 1)
                    THEN control' = Returning(ScopeIn(j - 1)[control.program.name])
                    ELSE status' = "panicked"
              /\ (j = Len(stack) /\ control = Looping /\ fr.i <= Supplied(fr)) =>
                    /\ control' = Evaluating(fr.arguments[fr.i])
                    /\ stack' = stack
              /\ (j <= Len(stack') /\ stack'[j].k = "Args") =>
                    IF j = Len(stack) /\ control.k = "ret"
                    THEN /\ IsWith(stack'[j].new_scope, fr.new_scope, fr.args[fr.i], control.val)
                         /\ stack'[j].i = fr.i + 1
                    ELSE /\ stack'[j].new_scope = fr.new_scope
                         /\ stack'[j].i = fr.i]_vars

\* the second argument, a variable named as the first parameter, has just
\* yielded the caller's binding, which differs from the value bound to the
\* first parameter
ArgumentScopeWitness ==
    /\ stack # <<>> /\ Top(stack).k = "Args" /\ Top(stack).i = 2
    /\ Len(Top(stack).args) = 2 /\ Len(Top(stack).arguments) = 2
    /\ Top(stack).arguments[2] = Variable(Top(stack).args[1])
    /\ control.k = "ret"
    /\ control.val = ScopeIn(Len(stack) - 1)[Top(stack).args[1]]
    /\ control.val # Top(stack).new_scope[Top(stack).args[1]]

\* C3 as stated: inside the body of a call with fewer arguments than
\* parameters, looking up a parameter that got no argument always fails.
UnboundParameterAlwaysFails ==
    [][\A j \in 1..Len(stack) : LooksUpRemaining(j) => status' = "panicked"]_vars

\* C3 as amended: a call with fewer arguments than parameters does not fail;
\* the body gets the scope with only the supplied parameters bound, so a
\* parameter that got no argument is in the scope only if the caller binds that
\* name or a supplied parameter has the same name; looking it up inside the
\* body fails as undefined when the scope has no binding of the name, and
\* yields the scope's binding otherwise.
FewerArguments ==
    [][/\ (/\ control.k = "ret" /\ stack # <<>> /\ Top(stack).k = "Call"
           /\ control.val.t = "Function"
           /\ Len(Top(stack).arguments) < Len(control.val.args)) =>
              /\ status' = "running"
              /\ Len(stack') = Len(stack) /\ Top(stack').k = "Args"
       /\ \A j \in 1..Len(stack) :
            LET fr == stack[j] IN
            (/\ j = Len(stack) /\ fr.k = "Args" /\ control = Looping
             /\ Len(fr.arguments) < Len(fr.args) /\ fr.i > Supplied(fr)) =>
                /\ fr.i = Len(fr.arguments) + 1
                /\ stack'[j].k = "Body" /\ stack'[j].bound = Len(fr.arguments)
                /\ \A l \in (Len(fr.arguments) + 1)..Len(fr.args) :
                      fr.args[l] \in DOMAIN stack'[j].new_scope =>
                          \/ fr.args[l] \in DOMAIN ScopeIn(j - 1)
                          \/ \E m \in 1..Len(fr.arguments) : fr.args[m] = fr.args[l]
       /\ \A j \in 1..Len(stack) :
            LooksUpRemaining(j) =>
                IF control.program.name \in DOMAIN stack[j].new_scope
                THEN control' = Returning(stack[j].new_scope[control.program.name])
                ELSE /\ status' = "panicked"
                     /\ control' = Panic("Variable does not exist")]_vars

\* the body of a call with fewer arguments than parameters is about to look up
\* a parameter that got no argument and that its scope does not bind
FewerArgumentsWitness ==
    \E j \in 1..Len(stack) :
        /\ LooksUpRemaining(j)
        /\ control.program.name \notin DOMAIN stack[j].new_scope
        /\ status = "running"

\* a program that defines f with the one-statement body `n`, binds n, calls f,
\* binds n again and calls f again, where the call binds no parameter named n
IsRedefinition(p) ==
    /\ Len(p) = 5
    /\ p[1].t = "Define" /\ p[1].name = "f" /\ p[1].value.t = "Lit"
    /\ p[1].value.val.t = "Function"
    /\ Len(p[1].value.val.body) = 1 /\ p[1].value.val.body[1].t = "Variable"
    /\ p[2].t = "Define" /\ p[2].name = p[1].value.val.body[1].name /\ p[2].value.t = "Lit"
    /\ p[3].t = "Call" /\ p[3].func = Variable("f")
    /\ p[4].t = "Define" /\ p[4].name = p[2].name /\ p[4].value.t = "Lit"
    /\ p[5] = p[3]
    /\ \A l \in 1..Min(Len(p[1].value.val.args), Len(p[3].arguments)) :
          p[1].value.val.args[l] # p[2].name

\* a program that defines f, whose body calls g, before it defines g
IsForward(p) ==
    /\ Len(p) = 3
    /\ p[1] = Define("f", Lit(Function(<<>>, <<Call(Variable("g"), <<>>)>>)))
    /\ p[2].t = "Define" /\ p[2].name = "g" /\ p[2].value.t = "Lit"
    /\ p[2].value.val.t = "Function" /\ p[2].value.val.args = <<>>
    /\ Len(p[2].value.val.body) = 1 /\ p[2].value.val.body[1].t = "Lit"
    /\ p[3] = Call(Variable("f"), <<>>)

\* C4: a Function captures no environment when it is defined.  A free variable
\* of its body resolves to the caller's binding at the call: a call of f sees
\* the binding made after f was defined, a second call sees the redefinition,
\* a body may call a function defined later, and REAL_CODE, where ne uses the
\* later not and rec uses rec, runs to its end with the expected values.
DynamicResolution ==
    /\ IsRedefinition(program) =>
          /\ status \in {"running", "finished"}
          /\ Len(out) >= 3 => out[3] = program[2].value.val
          /\ Len(out) >= 5 => out[5] = program[4].value.val
    /\ IsForward(program) =>
          /\ status \in {"running", "finished"}
          /\ Len(out) >= 3 => out[3] = program[2].value.val.body[1].val
    /\ (program = RealCode /\ {"add", "eq", "if"} \subseteq DOMAIN env) =>
          /\ status \in {"running", "finished"}
          /\ status = "finished" =>
                out = <<Void, Void, Void, Void, Void, Void, Void, Void,
                        IntV(10), IntV(15), IntV(2), IntV(10), Void, IntV(3)>>

\* both calls of f returned, and the second saw the redefinition
DynamicResolutionWitness ==
    /\ IsRedefinition(program) /\ status = "finished"
    /\ out[3] # out[5]
    /\ out[5] = program[4].value.val

\* C5: Define(name, valueExpr) evaluates valueExpr against the environment in
\* effect, then sets name to the value there, overwriting an earlier binding
\* and changing no other, and returns Void; the host's environment is kept
\* from one top-level form to the next, so "(= a 3) a" yields the value.
DefineSemantics ==
    [][/\ (control.k = "eval" /\ control.program.t = "Define" /\ status' # "cut") =>
              /\ control' = Evaluating(control.program.value)
              /\ Len(stack') = Len(stack) + 1
              /\ Top(stack') = [k |-> "Define", name |-> control.program.name]
              /\ ScopeAt(stack', env', Len(stack)) = ScopeIn(Len(stack))
       /\ (control.k = "ret" /\ stack # <<>> /\ Top(stack).k = "Define") =>
              /\ IsWith(ScopeAt(stack', env', Len(stack) - 1), ScopeIn(Len(stack) - 1),
                        Top(stack).name, control.val)
              /\ control' = Returning(Void)
              /\ Len(stack') = Len(stack) - 1
       /\ (stack = <<>> /\ control.k \in {"idle", "ret"}) => env' = env
       /\ (status' = "finished" /\ Len(program) = 2 /\ program[1].t = "Define"
           /\ program[1].value.t = "Lit" /\ program[2] = Variable(program[1].name)) =>
              out' = <<Void, program[1].value.val>>]_vars

\* a Define has overwritten the binding an earlier Define made, returning Void
DefineWitness ==
    /\ status = "finished" /\ Len(program) = 5
    /\ program[2].t = "Define" /\ program[4].t = "Define"
    /\ program[2].name = program[4].name
    /\ program[2].value # program[4].value /\ program[4].value.t = "Lit"
    /\ env[program[4].name] = program[4].value.val
    /\ out[4] = Void

\* C6: the statements of a Function body are evaluated in order against one
\* scope, which keeps what each statement defined for the next; the call
\* returns the value of the last statement, and Void when the body is empty.
BodySequencing ==
    [][\A j \in 1..Len(stack) :
          (j = Len(stack) /\ stack[j].k = "Body") =>
              LET fr == stack[j] IN
              /\ (control = Looping /\ fr.i <= Len(fr.body)) =>
                    /\ control' = Evaluating(fr.body[fr.i])
                    /\ stack' = stack
              /\ control.k = "ret" =>
                    /\ stack'[j].i = fr.i + 1
                    /\ stack'[j].out = control.val
                    /\ stack'[j].new_scope = fr.new_scope
              /\ (control = Looping /\ fr.i > Len(fr.body)) =>
                    /\ Len(stack') = j - 1
                    /\ control' = Returning(fr.out)
                    /\ fr.body = <<>> => control' = Returning(Void)
                    /\ fr.i = Len(fr.body) + 1]_vars

\* the second statement of a body has just read the name its first statement
\* defined, a name the caller does not bind
BodySequencingWitness ==
    /\ stack # <<>> /\ Top(stack).k = "Body" /\ Top(stack).i = 2
    /\ Len(Top(stack).body) = 2
    /\ Top(stack).body[1].t = "Define"
    /\ Top(stack).body[2] = Variable(Top(stack).body[1].name)
    /\ control.k = "ret"
    /\ control.val = Top(stack).new_scope[Top(stack).body[1].name]
    /\ Top(stack).body[1].name \notin DOMAIN ScopeIn(Len(stack) - 1)

\* C7: evaluation failures are fatal at every depth.  A lookup of a name the
\* environment in effect does not bind, and a call whose callee evaluated to
\* Void, False or an Int, end the whole top-level eval: no value is returned
\* for the form, and no step follows.  A wrong argument count alone lets the
\* evaluation go on.
FatalFailures ==
    [][/\ status # "panicked"
       /\ (/\ control.k = "eval" /\ control.program.t = "Variable"
           /\ control.program.name \notin DOMAIN ScopeIn(Len(stack))) =>
              status' = "panicked" /\ out' = out /\ line' = line /\ env' = env
       /\ (/\ control.k = "ret" /\ stack # <<>> /\ Top(stack).k = "Call"
           /\ control.val.t \in {"Void", "False", "Int"}) =>
              status' = "panicked" /\ out' = out /\ line' = line /\ env' = env
       /\ (/\ control.k = "ret" /\ stack # <<>> /\ Top(stack).k = "Call"
           /\ control.val.t = "Function"
           /\ Len(Top(stack).arguments) # Len(control.val.args)) =>
              /\ status' = "running"
              /\ Len(stdout') = Len(stdout) + 1]_vars

\* a lookup of an unbound name is about to fail inside a body called from a body
FatalFailuresWitness ==
    /\ status = "running"
    /\ control.k = "eval" /\ control.program.t = "Variable"
    /\ control.program.name \notin DOMAIN ScopeIn(Len(stack))
    /\ Cardinality(BodiesIn(Len(stack))) >= 2

\* C9: the parser never crashes: every text yields forms and a remainder, or a
\* syntax failure.
ParserNeverCrashes == status # "crashed"

\* C10: the new scope of a Function call is copied from the caller's
\* environment when the callee has been evaluated and no argument has; a
\* Define made by an argument goes to the caller's environment and leaves the
\* new scope alone, and the body starts with the scope as the copy and the
\* parameter bindings made it.
ScopeCopiedBeforeArguments ==
    [][/\ (/\ control.k = "ret" /\ stack # <<>> /\ Top(stack).k = "Call"
           /\ control.val.t = "Function") =>
              /\ Len(stack') = Len(stack) /\ Top(stack').k = "Args"
              /\ Top(stack').i = 1
              /\ Top(stack').new_scope = ScopeIn(Len(stack) - 1)
              /\ ScopeAt(stack', env', Len(stack) - 1) = ScopeIn(Len(stack) - 1)
       /\ \A j \in 1..Len(stack) :
            (/\ ArgLevel(j) /\ j < Len(stack)
             /\ control.k = "ret" /\ Top(stack).k = "Define") =>
                /\ IsWith(ScopeAt(stack', env', j - 1), ScopeIn(j - 1), Top(stack).name, control.val)
                /\ stack'[j] = stack[j]
       /\ (/\ stack # <<>> /\ Top(stack).k = "Args" /\ control = Looping
           /\ Top(stack).i > Supplied(Top(stack))) =>
              /\ Len(stack') = Len(stack) /\ Top(stack').k = "Body"
              /\ Top(stack').new_scope = Top(stack).new_scope
              /\ Top(stack').body = Top(stack).body]_vars

\* a body starts while the caller binds a name that an argument defined and
\* that the body's scope does not have
ScopeCopiedWitness ==
    /\ stack # <<>> /\ Top(stack).k = "Body" /\ Top(stack).i = 1 /\ control = Looping
    /\ Top(stack).bound >= 1
    /\ \E n \in Names :
          /\ n \in DOMAIN ScopeIn(Len(stack) - 1)
          /\ n \notin DOMAIN Top(stack).new_scope

====
